---------------------------- MODULE Spec2Model ----------------------------
(***************************************************************************)
(* TD4 emulator (td4emu): the fetch / decode / dispatch loop of            *)
(* CpuEmulator::exec over the register file, the port and the ROM.         *)
(*                                                                         *)
(* A state is the emulator object (register, port, rom), the position of   *)
(* the caller in `with` / `exec` (phase), and three history variables      *)
(* (count, last, last2) that record what has been dispatched so far.       *)
(* tokens is the input of Compiler::compile when the ROM is a compiled     *)
(* program (the binaries' pipeline), and empty when the ROM is given as    *)
(* bytes (the emulator's tests).                                           *)
(***************************************************************************)
EXTENDS Integers, Sequences, FiniteSets, TLC

VARIABLES register, port, rom, phase, count, last, last2, tokens

vars == <<register, port, rom, phase, count, last, last2, tokens>>

(***************************************************************************)
(* Bounds of the model and constants of the program.                       *)
(***************************************************************************)
\* Longest ROM whose contents are enumerated exhaustively over RomBytes.
MaxLen == 3
\* The dispatch counter saturates here (a looping program runs forever).
MaxSteps == 20
\* emulator.rs:20, assert!(rom.size() <= 16).
MaxRomSize == 16

Nibble == 0..15
Byte == 0..255

(***************************************************************************)
(* Opcode (src/op.rs is not part of the sources; the numbering is the one  *)
(* the emulator's tests and the compiler use).                             *)
(***************************************************************************)
Opcodes == {"AddA", "MovA2B", "InA", "MovA", "MovB2A", "AddB", "InB", "MovB",
            "OutB", "OutIm", "Jnc", "Jmp"}

\* FromPrimitive::from_u8: the Opcode with discriminant op, "None" without one.
from_u8(op) ==
    CASE op = 0  -> "AddA"
      [] op = 1  -> "MovA2B"
      [] op = 2  -> "InA"
      [] op = 3  -> "MovA"
      [] op = 4  -> "MovB2A"
      [] op = 5  -> "AddB"
      [] op = 6  -> "InB"
      [] op = 7  -> "MovB"
      [] op = 9  -> "OutB"
      [] op = 11 -> "OutIm"
      [] op = 14 -> "Jnc"
      [] op = 15 -> "Jmp"
      [] OTHER   -> "None"

(***************************************************************************)
(* Register, Port, Rom accessors (src/register.rs, src/rom.rs and the      *)
(* two-argument Port are not part of the sources): register A, B masked    *)
(* to 4 bits and carry to 1 bit on every write; the program counter is a   *)
(* plain u8.                                                               *)
(***************************************************************************)
set_register_a(reg, v) == [reg EXCEPT !.register_a = v % 16]
set_register_b(reg, v) == [reg EXCEPT !.register_b = v % 16]
set_carry_flag(reg, v) == [reg EXCEPT !.carry_flag = v % 2]
set_pc(reg, v) == [reg EXCEPT !.pc = v]
incr_pc(reg) == [reg EXCEPT !.pc = (reg.pc + 1) % 256]
set_output(prt, v) == [prt EXCEPT !.output = v % 16]
size(r) == Len(r)
read(r, pc) == r[pc + 1]

(***************************************************************************)
(* CpuEmulator                                                             *)
(***************************************************************************)
\* Variant: the size limit off by one.
with_ok_off_by_one(r) == size(r) <= MaxRomSize + 1

\* with: the assertion on the ROM size; TRUE when construction succeeds.
with_ok(r) == size(r) <= MaxRomSize

fetch(reg, r) == IF size(r) <= reg.pc THEN 0 ELSE read(r, reg.pc)

\* Variant: the operand is the whole byte, not its low nibble.
decode_unmasked(data) ==
    LET op == data \div 16
        opcode == from_u8(op)
    IN  IF opcode # "None"
        THEN IF opcode \in {"InA", "InB", "OutB"}
             THEN [ok |-> TRUE, opcode |-> opcode, im |-> 0]
             ELSE [ok |-> TRUE, opcode |-> opcode, im |-> data]
        ELSE [ok |-> FALSE, opcode |-> "None", im |-> 0]

\* Variant: a byte with no opcode is run as ADD A, im instead of failing.
decode_lenient(data) ==
    LET op == data \div 16
        im == data % 16
        opcode == from_u8(op)
    IN  IF opcode # "None"
        THEN IF opcode \in {"InA", "InB", "OutB"}
             THEN [ok |-> TRUE, opcode |-> opcode, im |-> 0]
             ELSE [ok |-> TRUE, opcode |-> opcode, im |-> im]
        ELSE [ok |-> TRUE, opcode |-> "AddA", im |-> im]

decode(data) ==
    LET op == data \div 16
        im == data % 16
        opcode == from_u8(op)
    IN  IF opcode # "None"
        THEN IF opcode \in {"InA", "InB", "OutB"}
             THEN [ok |-> TRUE, opcode |-> opcode, im |-> 0]
             ELSE [ok |-> TRUE, opcode |-> opcode, im |-> im]
        ELSE [ok |-> FALSE, opcode |-> "None", im |-> 0]

mov_a(reg, im) == set_carry_flag(set_register_a(reg, im), 0)

mov_b(reg, im) == set_carry_flag(set_register_b(reg, im), 0)

\* Variant: the move goes the other way (B <- A).
mov_a2b_swapped(reg) == set_carry_flag(set_register_b(reg, reg.register_a), 0)

mov_a2b(reg) == set_carry_flag(set_register_a(reg, reg.register_b), 0)

mov_b2a(reg) == set_carry_flag(set_register_b(reg, reg.register_a), 0)

\* Variant: the carry test is >= 0x0f.
add_a_carry_at_15(reg, im) ==
    LET existence == reg.register_a
        new_value == existence + im
        r1 == IF new_value >= 15 THEN set_carry_flag(reg, 1) ELSE reg
    IN  set_register_a(r1, new_value % 16)

\* Variant: an ADD that does not overflow clears the carry flag.
add_a_clears_carry(reg, im) ==
    LET existence == reg.register_a
        new_value == existence + im
        r1 == set_carry_flag(reg, IF new_value > 15 THEN 1 ELSE 0)
    IN  set_register_a(r1, new_value % 16)

add_a(reg, im) ==
    LET existence == reg.register_a
        new_value == existence + im
        r1 == IF new_value > 15 THEN set_carry_flag(reg, 1) ELSE reg
    IN  set_register_a(r1, new_value % 16)

add_b(reg, im) ==
    LET existence == reg.register_b
        new_value == existence + im
        r1 == IF new_value > 15 THEN set_carry_flag(reg, 1) ELSE reg
    IN  set_register_b(r1, new_value % 16)

in_a(reg, prt) == set_carry_flag(set_register_a(reg, prt.input), 0)

\* Variant: IN B also clears A.
in_b_clearing_a(reg, prt) ==
    set_carry_flag(set_register_a(set_register_b(reg, prt.input), 0), 0)

in_b(reg, prt) == set_carry_flag(set_register_b(reg, prt.input), 0)

out_im(prt, im) == set_output(prt, im)

out_b(reg, prt) == set_output(prt, reg.register_b)

jmp(reg, im) == set_carry_flag(set_pc(reg, im), 0)

\* Variant: a JNC that is not taken falls through to the next address.
jnc_falls_through(reg, im) ==
    LET r1 == IF reg.carry_flag = 0 THEN set_pc(reg, im) ELSE incr_pc(reg)
    IN  set_carry_flag(r1, 0)

\* Variant: the carry flag is reset only when the jump is taken.
jnc_keeps_carry(reg, im) ==
    IF reg.carry_flag = 0 THEN set_carry_flag(set_pc(reg, im), 0) ELSE reg

jnc(reg, im) ==
    LET r1 == IF reg.carry_flag = 0 THEN set_pc(reg, im) ELSE reg
    IN  set_carry_flag(r1, 0)

\* Variant: MOV A,B and MOV B,A add the low nibble to the value moved.
dispatch_adding_im(opcode, im, reg, prt) ==
    CASE opcode = "MovA"   -> [register |-> mov_a(reg, im), port |-> prt]
      [] opcode = "MovB"   -> [register |-> mov_b(reg, im), port |-> prt]
      [] opcode = "AddA"   -> [register |-> add_a(reg, im), port |-> prt]
      [] opcode = "AddB"   -> [register |-> add_b(reg, im), port |-> prt]
      [] opcode = "MovA2B" ->
            [register |-> mov_a(reg, (reg.register_b + im) % 16), port |-> prt]
      [] opcode = "MovB2A" ->
            [register |-> mov_b(reg, (reg.register_a + im) % 16), port |-> prt]
      [] opcode = "Jmp"    -> [register |-> jmp(reg, im), port |-> prt]
      [] opcode = "Jnc"    -> [register |-> jnc(reg, im), port |-> prt]
      [] opcode = "InA"    -> [register |-> in_a(reg, prt), port |-> prt]
      [] opcode = "InB"    -> [register |-> in_b(reg, prt), port |-> prt]
      [] opcode = "OutB"   -> [register |-> set_carry_flag(reg, 0),
                               port |-> out_b(reg, prt)]
      [] opcode = "OutIm"  -> [register |-> set_carry_flag(reg, 0),
                               port |-> out_im(prt, im)]

\* exec, the match on the opcode: the register file and the port afterwards.
dispatch(opcode, im, reg, prt) ==
    CASE opcode = "MovA"   -> [register |-> mov_a(reg, im), port |-> prt]
      [] opcode = "MovB"   -> [register |-> mov_b(reg, im), port |-> prt]
      [] opcode = "AddA"   -> [register |-> add_a(reg, im), port |-> prt]
      [] opcode = "AddB"   -> [register |-> add_b(reg, im), port |-> prt]
      [] opcode = "MovA2B" -> [register |-> mov_a2b(reg), port |-> prt]
      [] opcode = "MovB2A" -> [register |-> mov_b2a(reg), port |-> prt]
      [] opcode = "Jmp"    -> [register |-> jmp(reg, im), port |-> prt]
      [] opcode = "Jnc"    -> [register |-> jnc(reg, im), port |-> prt]
      [] opcode = "InA"    -> [register |-> in_a(reg, prt), port |-> prt]
      [] opcode = "InB"    -> [register |-> in_b(reg, prt), port |-> prt]
      [] opcode = "OutB"   -> [register |-> set_carry_flag(reg, 0),
                               port |-> out_b(reg, prt)]
      [] opcode = "OutIm"  -> [register |-> set_carry_flag(reg, 0),
                               port |-> out_im(prt, im)]

\* Variant: the program counter advances after every instruction.
advance_always(opcode, reg) == incr_pc(reg)

\* exec, after the match: the program counter advances unless a jump ran.
advance(opcode, reg) ==
    IF opcode # "Jmp" /\ opcode # "Jnc" THEN incr_pc(reg) ELSE reg

\* Variant: the run halts only once PC is beyond the ROM length.
does_halt_beyond_end(reg, r) == reg.pc > size(r)

\* Variant: the run halts only once PC is past the last address.
does_halt_past_end(reg, r) == reg.pc >= size(r)

\* size() - 1 is unsigned 8-bit arithmetic: on an empty ROM it overflows,
\* which panics where overflow checks are on (DoesHaltOverflow) and wraps to
\* 255 where they are off.
does_halt(reg, r) == reg.pc >= (size(r) - 1) % 256

\* The subtraction in does_halt overflows.
does_halt_overflows(r) == size(r) - 1 < 0

(***************************************************************************)
(* Compiler (src/compiler.rs). A token is a record: kind, the register of  *)
(* Mov / Add / In, and the immediate text as a sequence of characters.     *)
(***************************************************************************)
ParseErr == 0 - 1

RECURSIVE radix2(_, _)
\* The digits of a base-2 literal folded left to right from acc, as
\* u8::from_str_radix does: ParseErr on a character that is no binary digit
\* and on a value past 255.
radix2(digits, acc) ==
    IF digits = <<>> THEN acc
    ELSE IF Head(digits) \notin {"0", "1"} THEN ParseErr
    ELSE LET next == 2 * acc + (IF Head(digits) = "1" THEN 1 ELSE 0)
         IN  IF next > 255 THEN ParseErr ELSE radix2(Tail(digits), next)

\* u8::from_str_radix(&im, 2): the empty string and a lone sign are errors,
\* one leading "+" is skipped, "-" is no digit of an unsigned number.
from_str_radix(im) ==
    IF im = <<>> THEN ParseErr
    ELSE IF Len(im) = 1 /\ Head(im) \in {"+", "-"} THEN ParseErr
    ELSE IF Head(im) = "+" THEN radix2(Tail(im), 0)
    ELSE radix2(im, 0)

\* Variant: the opcode is shifted by 3 bits.
gen_bin_code_shift3(op, im) ==
    LET shift_op == (op * 8) % 256
        binary_to_decimal == from_str_radix(im)
    IN  IF binary_to_decimal = ParseErr THEN ParseErr
        ELSE shift_op + (binary_to_decimal % 16)

\* gen_bin_code: the packed byte, or ParseErr for the Err of map_err(..)?.
\* shift_op has a zero low nibble, so the bitwise or is a sum.
gen_bin_code(op, im) ==
    LET shift_op == (op * 16) % 256
        binary_to_decimal == from_str_radix(im)
    IN  IF binary_to_decimal = ParseErr THEN ParseErr
        ELSE shift_op + (binary_to_decimal % 16)

\* Variant: the padding is 0b1111.
gen_bin_code_with_ones_padding(op) ==
    LET shift_op == (op * 16) % 256
        ones_padding == 15
    IN  shift_op + ones_padding

gen_bin_code_with_zero_padding(op) ==
    LET shift_op == (op * 16) % 256
        zero_padding == 0
    IN  shift_op + zero_padding

\* compile, the match on the token: its byte, or ParseErr.
compile_token(token) ==
    CASE token.kind = "Mov" /\ token.reg = "A" -> gen_bin_code(3, token.im)
      [] token.kind = "Mov" /\ token.reg = "B" -> gen_bin_code(7, token.im)
      [] token.kind = "MovAB" -> gen_bin_code_with_zero_padding(1)
      [] token.kind = "MovBA" -> gen_bin_code_with_zero_padding(4)
      [] token.kind = "Add" /\ token.reg = "A" -> gen_bin_code(0, token.im)
      [] token.kind = "Add" /\ token.reg = "B" -> gen_bin_code(5, token.im)
      [] token.kind = "Jmp" -> gen_bin_code(15, token.im)
      [] token.kind = "Jnc" -> gen_bin_code(14, token.im)
      [] token.kind = "In" /\ token.reg = "A" ->
            gen_bin_code_with_zero_padding(2)
      [] token.kind = "In" /\ token.reg = "B" ->
            gen_bin_code_with_zero_padding(6)
      [] token.kind = "OutB" -> gen_bin_code_with_zero_padding(9)
      [] token.kind = "OutIm" -> gen_bin_code(11, token.im)

RECURSIVE compile_from_prepending(_, _, _)
\* Variant: each byte is put in front of the result.
compile_from_prepending(toks, i, result) ==
    IF i > Len(toks) THEN [ok |-> TRUE, program |-> result]
    ELSE LET program == compile_token(toks[i])
         IN  IF program = ParseErr THEN [ok |-> FALSE, program |-> <<>>]
             ELSE compile_from_prepending(toks, i + 1, <<program>> \o result)

RECURSIVE compile_from(_, _, _)
\* compile's loop from token i on, result being the bytes pushed so far: the
\* first token that fails returns the error and result is dropped.
compile_from(toks, i, result) ==
    IF i > Len(toks) THEN [ok |-> TRUE, program |-> result]
    ELSE LET program == compile_token(toks[i])
         IN  IF program = ParseErr THEN [ok |-> FALSE, program |-> <<>>]
             ELSE compile_from(toks, i + 1, Append(result, program))

compile(toks) == compile_from(toks, 1, <<>>)

(***************************************************************************)
(* Initial states: what the callers (the tests, the binaries) set up       *)
(* before CpuEmulator::with.                                               *)
(***************************************************************************)
\* Instruction bytes the exhaustive ROMs are made of: ADD A,1  MOV A,B
\* MOV A,7  ADD B,15  IN B  OUT B  OUT 9  JNC 2  JMP 0  JMP 2 and one byte
\* with no opcode (1000 0000). SingleRoms adds every other byte.
RomBytes == {1, 16, 55, 95, 96, 144, 185, 226, 240, 242, 128}

RECURSIVE SeqsUpTo(_, _)
SeqsUpTo(S, n) ==
    IF n = 0 THEN {<<>>}
    ELSE LET shorter == SeqsUpTo(S, n - 1)
         IN  shorter \cup
             {Append(s, x) : s \in {t \in shorter : Len(t) = n - 1}, x \in S}

\* Every ROM of 1..MaxLen bytes over RomBytes.
SmallRoms == SeqsUpTo(RomBytes, MaxLen) \ {<<>>}

\* One byte repeated, for every length up to one past the size limit.
UniformRoms == {[i \in 1..n |-> x] : n \in 1..(MaxRomSize + 1), x \in RomBytes}

\* Every single instruction byte, alone and followed by one more byte.
SingleRoms == {<<x>> : x \in Byte} \cup {<<x, 144>> : x \in Byte}

\* MOV r,x then ADD r,y then OUT B, for every x and y.
MovAddRoms ==
    {<<48 + x, y, 144>> : x \in Nibble, y \in Nibble} \cup
    {<<112 + x, 80 + y, 144>> : x \in Nibble, y \in Nibble}

Roms == SmallRoms \cup UniformRoms \cup SingleRoms \cup MovAddRoms

\* Register::new() is all zero; the tests preset A and B.
Registers ==
    [register_a : {0, 15}, register_b : {3}, carry_flag : {0, 1}, pc : {0}]

Ports == [input : {5}, output : {0}]

NoLast == [opcode |-> "None", im |-> 0, register |-> [register_a |-> 0,
           register_b |-> 0, carry_flag |-> 0, pc |-> 0],
           port |-> [input |-> 0, output |-> 0]]

Init ==
    /\ rom \in Roms
    /\ register \in Registers
    /\ port \in Ports
    /\ phase = "new"
    /\ count = 0
    /\ last = NoLast
    /\ last2 = NoLast
    /\ tokens = <<>>

(***************************************************************************)
(* Actions                                                                 *)
(***************************************************************************)
\* CpuEmulator::with: panics on an oversized ROM, else the caller goes on
\* to exec, whose loop starts with a fetch.
With ==
    /\ phase = "new"
    /\ phase' = IF with_ok(rom) THEN "fetch" ELSE "panicked"
    /\ UNCHANGED <<register, port, rom, count, last, last2, tokens>>

\* One pass of exec's loop up to the halt test, for a byte that decodes to
\* opcode k: fetch, decode, the match, the program-counter advance.
Step(k) ==
    /\ phase = "fetch"
    /\ LET data == fetch(register, rom)
           d == decode(data)
           after == dispatch(d.opcode, d.im, register, port)
       IN  /\ d.ok
           /\ d.opcode = k
           /\ register' = advance(d.opcode, after.register)
           /\ port' = after.port
           /\ last' = [opcode |-> d.opcode, im |-> d.im,
                       register |-> register, port |-> port]
    /\ last2' = last
    /\ count' = IF count < MaxSteps THEN count + 1 ELSE count
    /\ phase' = "check"
    /\ UNCHANGED <<rom, tokens>>

\* decode(data)? returns the error out of exec.
DecodeErr ==
    /\ phase = "fetch"
    /\ ~decode(fetch(register, rom)).ok
    /\ phase' = "error"
    /\ UNCHANGED <<register, port, rom, count, last, last2, tokens>>

\* The halt test that ends each pass of the loop.
DoesHalt ==
    /\ phase = "check"
    /\ phase' = IF does_halt(register, rom) THEN "halted" ELSE "fetch"
    /\ UNCHANGED <<register, port, rom, count, last, last2, tokens>>

\* One action per arm of exec's match.
ExecMovA == Step("MovA")
ExecMovB == Step("MovB")
ExecAddA == Step("AddA")
ExecAddB == Step("AddB")
ExecMovA2B == Step("MovA2B")
ExecMovB2A == Step("MovB2A")
ExecJmp == Step("Jmp")
ExecJnc == Step("Jnc")
ExecInA == Step("InA")
ExecInB == Step("InB")
ExecOutB == Step("OutB")
ExecOutIm == Step("OutIm")

Next ==
    \/ With
    \/ ExecMovA
    \/ ExecMovB
    \/ ExecAddA
    \/ ExecAddB
    \/ ExecMovA2B
    \/ ExecMovB2A
    \/ ExecJmp
    \/ ExecJnc
    \/ ExecInA
    \/ ExecInB
    \/ ExecOutB
    \/ ExecOutIm
    \/ DecodeErr
    \/ DoesHalt

Spec == Init /\ [][Next]_vars

(***************************************************************************)
(* The binaries' pipeline (src/bin/td4emu.rs): compile the tokens, build   *)
(* the ROM from the program, construct the emulator on Register::new() and *)
(* Port::new(0, 0), run exec.                                              *)
(***************************************************************************)
\* Longest token sequence enumerated exhaustively over SeqTokens.
MaxTokens == 3

Token(kind, reg, im) == [kind |-> kind, reg |-> reg, im |-> im]

\* Immediate texts: every string of 0..5 binary digits, and texts that are
\* not 4-bit binary literals in other ways (a foreign digit, signs, 8 and 9
\* digits, decimal).
BinaryTexts == SeqsUpTo({"0", "1"}, 5)

OtherTexts ==
    {<<"2">>, <<"0", "0", "2", "1">>, <<"1", "5">>, <<"+">>, <<"-">>,
     <<"+", "1", "0", "1">>, <<"-", "1">>, <<"1", "0", "+", "1">>,
     <<"1", "1", "1", "1", "1", "1", "1", "1">>,
     <<"1", "0", "0", "0", "0", "0", "0", "0", "0">>,
     <<"0", "1", "1", "1", "1", "1", "1", "1", "1">>}

ImTexts == BinaryTexts \cup OtherTexts

\* The tokens that carry an immediate, over every text, and the five that
\* carry none.
ValueTokens ==
    {Token(k, r, t) : k \in {"Mov", "Add"}, r \in {"A", "B"}, t \in ImTexts}
    \cup {Token(k, "-", t) : k \in {"Jmp", "Jnc", "OutIm"}, t \in ImTexts}

PlainTokens ==
    {Token("MovAB", "-", <<>>), Token("MovBA", "-", <<>>),
     Token("In", "A", <<>>), Token("In", "B", <<>>),
     Token("OutB", "-", <<>>)}

\* The tokens the exhaustive sequences are made of: MOV A,1111  ADD A,0001
\* MOV B,A  IN B  OUT B  OUT 1001  JNC 0010  JMP 0000  and MOV B,12.
SeqTokens ==
    {Token("Mov", "A", <<"1", "1", "1", "1">>),
     Token("Add", "A", <<"0", "0", "0", "1">>),
     Token("MovBA", "-", <<>>), Token("In", "B", <<>>),
     Token("OutB", "-", <<>>),
     Token("OutIm", "-", <<"1", "0", "0", "1">>),
     Token("Jnc", "-", <<"0", "0", "1", "0">>),
     Token("Jmp", "-", <<"0", "0", "0", "0">>),
     Token("Mov", "B", <<"1", "2">>)}

\* Every sequence of 0..MaxTokens tokens over SeqTokens, every token alone
\* and before OUT B, and OUT B repeated up to one past the ROM size limit.
TokenSeqs ==
    SeqsUpTo(SeqTokens, MaxTokens)
    \cup {<<t>> : t \in ValueTokens \cup PlainTokens}
    \cup {<<t, Token("OutB", "-", <<>>), Token("OutB", "-", <<>>)>> :
                t \in ValueTokens \cup PlainTokens}
    \cup {[i \in 1..k |-> Token("OutB", "-", <<>>)] :
                k \in {MaxRomSize, MaxRomSize + 1}}

InitCompile ==
    /\ tokens \in TokenSeqs
    /\ rom = <<>>
    /\ register = [register_a |-> 0, register_b |-> 0, carry_flag |-> 0,
                   pc |-> 0]
    /\ port = [input |-> 0, output |-> 0]
    /\ phase = "source"
    /\ count = 0
    /\ last = NoLast
    /\ last2 = NoLast

\* compiler.compile(tokens): the program becomes the ROM, or the error ends
\* the process before any emulator exists.
Compile ==
    /\ phase = "source"
    /\ LET c == compile(tokens)
       IN  IF c.ok THEN rom' = c.program /\ phase' = "new"
           ELSE rom' = rom /\ phase' = "compile_error"
    /\ UNCHANGED <<register, port, count, last, last2, tokens>>

\* The halt test on an empty ROM where overflow checks are on: size() - 1
\* panics.
DoesHaltOverflow ==
    /\ phase = "check"
    /\ does_halt_overflows(rom)
    /\ phase' = "panicked"
    /\ UNCHANGED <<register, port, rom, count, last, last2, tokens>>

\* A compiled program holds no byte without an opcode, so exec's decode
\* error has no step here.
NextCompile ==
    \/ Compile
    \/ With
    \/ ExecMovA
    \/ ExecMovB
    \/ ExecAddA
    \/ ExecAddB
    \/ ExecMovA2B
    \/ ExecMovB2A
    \/ ExecJmp
    \/ ExecJnc
    \/ ExecInA
    \/ ExecInB
    \/ ExecOutB
    \/ ExecOutIm
    \/ DoesHalt
    \/ DoesHaltOverflow

SpecCompile == InitCompile /\ [][NextCompile]_vars

TypeOK ==
    /\ rom \in Roms
    /\ tokens = <<>>
    /\ phase \in {"new", "fetch", "check", "halted", "error", "panicked"}
    /\ count \in 0..MaxSteps
    /\ last.opcode \in Opcodes \cup {"None"}

(***************************************************************************)
(* Vocabulary of the properties                                            *)
(***************************************************************************)
n == Len(rom)

Max(x, y) == IF x >= y THEN x ELSE y

\* The high nibbles the Opcode table maps.
ValidOps == {0, 1, 2, 3, 4, 5, 6, 7, 9, 11, 14, 15}
JumpOps == {14, 15}

\* Every byte of the ROM carries one of the twelve opcodes.
ValidRom == \A i \in 1..n : (rom[i] \div 16) \in ValidOps

\* No byte of the ROM is a JMP or a JNC.
JumpFreeRom == \A i \in 1..n : (rom[i] \div 16) \notin JumpOps

Dispatched == last.opcode # "None"

before == last.register

C2_PcAtMostLast ==
    n \in 1..MaxRomSize => register.pc <= n - 1

\* C2 amended: the program counter is at most n-1, except that it is 1 after
\* the one (non-jump) dispatch of a 1-byte ROM, and that it is the target of
\* the JMP or JNC just dispatched when that target is past n-1; in both
\* exceptions the halt test that follows ends the run.
C2_PcBound ==
    n \in 1..MaxRomSize =>
        \/ register.pc <= n - 1
        \/ /\ n = 1 /\ register.pc = 1 /\ count = 1
           /\ last.opcode \notin {"None", "Jmp", "Jnc"}
           /\ phase \in {"check", "halted"}
        \/ /\ last.opcode \in {"Jmp", "Jnc"} /\ register.pc = last.im
           /\ phase \in {"check", "halted"}

\* A run over a 16-byte ROM has halted with the program counter at 15.
C2_Witness ==
    n = MaxRomSize /\ phase = "halted" /\ register.pc = n - 1 /\ count = n - 1

(***************************************************************************)
(* C3. MOV A,x immediately followed by ADD A,y leaves A = (x+y) mod 16 and *)
(* carry = 1 exactly when x+y > 15; likewise MOV B,x then ADD B,y.         *)
(***************************************************************************)
\* C3: whenever the last two dispatches were MOV A,x then ADD A,y, register A
\* holds (x+y) mod 16 and the carry flag is 1 if x+y > 15 and 0 otherwise;
\* the same for MOV B,x then ADD B,y and register B.
C3_MovThenAdd ==
    /\ (last2.opcode = "MovA" /\ last.opcode = "AddA") =>
            /\ register.register_a = (last2.im + last.im) % 16
            /\ register.carry_flag = (IF last2.im + last.im > 15 THEN 1 ELSE 0)
    /\ (last2.opcode = "MovB" /\ last.opcode = "AddB") =>
            /\ register.register_b = (last2.im + last.im) % 16
            /\ register.carry_flag = (IF last2.im + last.im > 15 THEN 1 ELSE 0)

\* MOV A,9 then ADD A,8, started with the carry flag set: A = 1, carry = 1.
C3_Witness ==
    /\ last2.opcode = "MovA" /\ last2.im = 9 /\ last2.register.carry_flag = 1
    /\ last.opcode = "AddA" /\ last.im = 8
    /\ register.register_a = 1 /\ register.carry_flag = 1

(***************************************************************************)
(* C4. The halt check precedes every fetch, the first included, so a ROM   *)
(* shorter than 2 bytes has no instruction dispatched.                     *)
(***************************************************************************)
\* C4 as stated: every dispatch happened in a state with PC < n-1, and a ROM
\* of fewer than 2 bytes has had nothing dispatched.
C4_HaltCheckBeforeEveryFetch ==
    /\ Dispatched => before.pc < n - 1
    /\ n < 2 => count = 0

\* C4 amended: the halt check follows every dispatch and none precedes the
\* first fetch: the first instruction is fetched at PC = 0 whatever the ROM
\* length, so a 1-byte ROM has exactly one instruction dispatched before the
\* run halts; every later fetch happens in a state with PC < n-1.
C4_HaltCheckAfterDispatch ==
    /\ count = 1 => before.pc = 0
    /\ count >= 2 => before.pc < n - 1
    /\ (phase = "fetch" /\ count >= 1) => register.pc < n - 1
    /\ (phase = "error" /\ count >= 1) => register.pc < n - 1
    /\ n = 1 => /\ count <= 1
                /\ phase = "halted" => count = 1
                /\ phase = "fetch" => count = 0

\* A 1-byte ROM has halted after its one dispatch.
C4_Witness ==
    n = 1 /\ phase = "halted" /\ count = 1 /\ before.pc = 0

(***************************************************************************)
(* C5. A 1-byte ROM holding a valid instruction: exec dispatches exactly   *)
(* that instruction, applies its effect and returns success; the final PC  *)
(* is 1 for a non-jump and 0 for JMP 0.                                    *)
(***************************************************************************)
\* The register file and port output an instruction byte leaves, read off
\* the instruction set: op and im are the byte's nibbles, r0 and p0 the
\* register file and port it ran on.
C5_Effect(op, im, r0, p0) ==
    [register_a |-> CASE op = 3 -> im
                      [] op = 1 -> r0.register_b
                      [] op = 0 -> (r0.register_a + im) % 16
                      [] op = 2 -> p0.input
                      [] OTHER -> r0.register_a,
     register_b |-> CASE op = 7 -> im
                      [] op = 4 -> r0.register_a
                      [] op = 5 -> (r0.register_b + im) % 16
                      [] op = 6 -> p0.input
                      [] OTHER -> r0.register_b,
     carry_flag |-> CASE op = 0 -> (IF r0.register_a + im > 15
                                     THEN 1 ELSE r0.carry_flag)
                      [] op = 5 -> (IF r0.register_b + im > 15
                                     THEN 1 ELSE r0.carry_flag)
                      [] OTHER -> 0,
     pc |-> CASE op = 15 -> im
              [] op = 14 -> (IF r0.carry_flag = 0 THEN im ELSE r0.pc)
              [] OTHER -> r0.pc + 1,
     output |-> CASE op = 9 -> r0.register_b
                  [] op = 11 -> im
                  [] OTHER -> p0.output]

\* C5: for a 1-byte ROM with a valid opcode the run never fails and makes at
\* most one dispatch; once that dispatch is made it was of the ROM's byte at
\* PC = 0, the registers and the port output are that instruction's effect
\* (PC = 1 for a non-jump, 0 for JMP 0), and the run halts there.
C5_OneByteRom ==
    (n = 1 /\ ValidRom) =>
        /\ phase \notin {"error", "panicked"}
        /\ count <= 1
        /\ phase = "fetch" => count = 0
        /\ phase \in {"check", "halted"} =>
            LET e == C5_Effect(rom[1] \div 16, rom[1] % 16, before, last.port)
            IN  /\ count = 1
                /\ before.pc = 0
                /\ last.opcode = from_u8(rom[1] \div 16)
                /\ register = [register_a |-> e.register_a,
                               register_b |-> e.register_b,
                               carry_flag |-> e.carry_flag, pc |-> e.pc]
                /\ port = [input |-> last.port.input, output |-> e.output]
                /\ (rom[1] \div 16) \notin JumpOps => register.pc = 1
                /\ rom[1] = 240 => register.pc = 0
        /\ phase = "check" => ENABLED DoesHalt /\ does_halt(register, rom)

\* The 1-byte ROM JMP 0 has halted with PC = 0 after one dispatch.
C5_Witness ==
    rom = <<240>> /\ phase = "halted" /\ count = 1 /\ register.pc = 0

(***************************************************************************)
(* C6. After JMP or JNC the program counter is not incremented; after any  *)
(* of the other ten kinds it is its previous value plus 1.                 *)
(***************************************************************************)
\* C6: after a dispatch, PC is the target after JMP, the target or (carry
\* set) its previous value after JNC, and its previous value plus 1 after
\* every other instruction.
C6_PcAfterDispatch ==
    Dispatched =>
        register.pc =
            CASE last.opcode = "Jmp" -> last.im
              [] last.opcode = "Jnc" ->
                    (IF before.carry_flag = 0 THEN last.im ELSE before.pc)
              [] OTHER -> before.pc + 1

\* A JNC dispatched at address 1 with the carry set left PC at 1.
C6_Witness ==
    /\ last.opcode = "Jnc" /\ before.carry_flag = 1 /\ before.pc = 1
    /\ register.pc = 1 /\ last.im = 2

(***************************************************************************)
(* C7. After any instruction other than ADD the carry flag is 0.           *)
(***************************************************************************)
\* C7: when the last dispatch was not ADD A / ADD B, the carry flag is 0.
C7_CarryReset ==
    (Dispatched /\ last.opcode \notin {"AddA", "AddB"}) =>
        register.carry_flag = 0

\* A JNC ran with the carry set and left it clear.
C7_Witness ==
    /\ last.opcode = "Jnc" /\ before.carry_flag = 1
    /\ register.carry_flag = 0

(***************************************************************************)
(* C8. An ADD whose raw sum is at most 15 leaves the carry flag as it was; *)
(* carry goes 0 -> 1 only by an overflowing ADD and 1 -> 0 only by a       *)
(* non-ADD instruction.                                                    *)
(***************************************************************************)
\* The raw sum of the ADD last dispatched.
C8_RawSum ==
    IF last.opcode = "AddA" THEN before.register_a + last.im
    ELSE before.register_b + last.im

\* C8: after an ADD with raw sum <= 15 the carry flag is what it was before;
\* a dispatch that raised carry was an ADD with raw sum > 15; a dispatch that
\* cleared carry was not an ADD.
C8_CarryFrame ==
    Dispatched =>
        /\ (last.opcode \in {"AddA", "AddB"} /\ C8_RawSum <= 15) =>
                register.carry_flag = before.carry_flag
        /\ (before.carry_flag = 0 /\ register.carry_flag = 1) =>
                (last.opcode \in {"AddA", "AddB"} /\ C8_RawSum > 15)
        /\ (before.carry_flag = 1 /\ register.carry_flag = 0) =>
                last.opcode \notin {"AddA", "AddB"}

\* An overflowing ADD A followed by a non-overflowing ADD A: carry is still 1.
C8_Witness ==
    /\ last2.opcode = "AddA"
    /\ last2.register.register_a + last2.im > 15
    /\ last2.register.carry_flag = 0
    /\ last.opcode = "AddA" /\ C8_RawSum <= 15
    /\ register.carry_flag = 1

(***************************************************************************)
(* C9. A, B and PC stay in 0..15 and carry in {0,1}; ADD stores the raw    *)
(* sum masked to 4 bits.                                                   *)
(***************************************************************************)
\* C9: in every state A, B and PC are in 0..15 and carry is 0 or 1; after an
\* ADD the target register holds the raw sum modulo 16.
C9_Ranges ==
    /\ register.register_a \in Nibble
    /\ register.register_b \in Nibble
    /\ register.pc \in Nibble
    /\ register.carry_flag \in {0, 1}
    /\ last.opcode = "AddA" =>
            register.register_a = (before.register_a + last.im) % 16
    /\ last.opcode = "AddB" =>
            register.register_b = (before.register_b + last.im) % 16

\* An ADD B whose raw sum 3 + 15 = 18 was stored as 2.
C9_Witness ==
    /\ last.opcode = "AddB" /\ before.register_b = 3 /\ last.im = 15
    /\ register.register_b = 2

(***************************************************************************)
(* C10. A ROM of more than 16 bytes fails at construction, before any      *)
(* fetch or any register or port change; 16 bytes or fewer are accepted.   *)
(***************************************************************************)
\* C10: the step out of construction goes to the failure exactly when the
\* ROM has more than 16 bytes and to exec's first fetch otherwise, changing
\* no register, port value or ROM byte and dispatching nothing; and nothing
\* at all happens after the failure.
C10_Construction ==
    [][/\ phase = "new" =>
            /\ phase' = (IF n > 16 THEN "panicked" ELSE "fetch")
            /\ UNCHANGED <<register, port, rom, count, last>>
       /\ phase # "panicked"
       /\ phase' = "panicked" => phase = "new"]_vars

\* Construction has failed on a 17-byte ROM with nothing dispatched.
C10_Witness ==
    n = 17 /\ phase = "panicked" /\ count = 0 /\ ~Dispatched

(***************************************************************************)
(* C11. A fetched byte whose high nibble has no Opcode entry (1000, 1010,  *)
(* 1100, 1101) makes exec return a decode error at that step, with no      *)
(* change to A, B, PC, carry or port output and no later dispatch.         *)
(***************************************************************************)
\* The high nibbles with no Opcode entry.
UnknownOps == {8, 10, 12, 13}

\* The byte at the program counter (the fetch of a run on a non-empty ROM).
ByteAtPc == rom[register.pc + 1]

\* C11: a step taken at a fetch whose byte has one of the four unmapped
\* high nibbles ends the run in the decode error and changes neither the
\* registers, the port, the ROM nor what has been dispatched; the error is
\* reached by no other step, and no step at all follows it.
C11_DecodeError ==
    [][/\ (phase = "fetch" /\ register.pc < n
                /\ (ByteAtPc \div 16) \in UnknownOps) =>
            /\ phase' = "error"
            /\ UNCHANGED <<register, port, rom, count, last, last2>>
       /\ phase' = "error" =>
            (phase = "fetch" /\ (ByteAtPc \div 16) \in UnknownOps)
       /\ phase # "error"]_vars

\* The run has ended in the decode error on the byte 1000 0000 at address
\* 1, after one dispatch.
C11_Witness ==
    /\ phase = "error" /\ count = 1 /\ register.pc = 1
    /\ n >= 2 /\ rom[2] = 128

(***************************************************************************)
(* Vocabulary of the compiler's properties                                 *)
(***************************************************************************)
\* The program has been compiled (and has become the ROM).
Compiled == phase \notin {"source", "compile_error"}

\* The token carries an immediate text.
HasImmediate(t) == t.kind \in {"Mov", "Add", "Jmp", "Jnc", "OutIm"}

\* The text is a string of binary digits, of exactly 4 digits.
IsBinary(text) == \A i \in 1..Len(text) : text[i] \in {"0", "1"}
IsFourBit(text) == Len(text) = 4 /\ IsBinary(text)

Digit(c) == IF c = "1" THEN 1 ELSE 0

\* The value of a 4-digit binary text.
FourBitValue(text) ==
    8 * Digit(text[1]) + 4 * Digit(text[2]) + 2 * Digit(text[3])
        + Digit(text[4])

\* The opcode nibble of each mnemonic.
OpcodeNibble(t) ==
    CASE t.kind = "Mov" /\ t.reg = "A" -> 3
      [] t.kind = "Mov" /\ t.reg = "B" -> 7
      [] t.kind = "MovAB" -> 1
      [] t.kind = "MovBA" -> 4
      [] t.kind = "Add" /\ t.reg = "A" -> 0
      [] t.kind = "Add" /\ t.reg = "B" -> 5
      [] t.kind = "Jmp" -> 15
      [] t.kind = "Jnc" -> 14
      [] t.kind = "In" /\ t.reg = "A" -> 2
      [] t.kind = "In" /\ t.reg = "B" -> 6
      [] t.kind = "OutB" -> 9
      [] t.kind = "OutIm" -> 11

\* The byte a token with a 4-digit immediate, or with none, packs to.
Packed(t) ==
    16 * OpcodeNibble(t) + (IF HasImmediate(t) THEN FourBitValue(t.im) ELSE 0)

(***************************************************************************)
(* C12. compile maps each token to (opcode_nibble << 4) | operand_nibble   *)
(* with the fixed nibbles, the operand being the 4-character binary        *)
(* immediate, or 0000 for MOV A,B  MOV B,A  IN A  IN B  OUT B.             *)
(***************************************************************************)
\* C12: in a compiled program, the byte of every token that has a
\* 4-character binary immediate, or no immediate, is 16 * its opcode nibble
\* + the immediate's value (0 without immediate).
C12_Packing ==
    Compiled =>
        \A i \in 1..Len(tokens) :
            (i <= Len(rom) /\ (HasImmediate(tokens[i]) => IsFourBit(tokens[i].im)))
                => rom[i] = Packed(tokens[i])

\* JNC 1010 has been compiled to 1110 1010.
C12_Witness ==
    /\ Compiled /\ Len(tokens) = 1
    /\ tokens[1] = Token("Jnc", "-", <<"1", "0", "1", "0">>)
    /\ rom[1] = 234

(***************************************************************************)
(* C13. compile succeeds on a token with an immediate only when the text   *)
(* is a string of binary digits denoting a 4-bit value; any other text     *)
(* (empty, a foreign character, more than 4 digits) gives the parse error  *)
(* and no bytes at all.                                                    *)
(***************************************************************************)
\* The text is a binary literal of a 4-bit value: 1 to 4 binary digits.
IsNibbleText(text) == Len(text) \in 1..4 /\ IsBinary(text)

\* C13 as stated: a compiled program has only 4-bit binary immediates, and
\* a failed compilation has produced no bytes and met a token whose
\* immediate is none.
C13_ImmediateRejected ==
    /\ Compiled =>
            \A i \in 1..Len(tokens) :
                HasImmediate(tokens[i]) => IsNibbleText(tokens[i].im)
    /\ phase = "compile_error" =>
            /\ rom = <<>>
            /\ \E i \in 1..Len(tokens) :
                    HasImmediate(tokens[i]) /\ ~IsNibbleText(tokens[i].im)

(***************************************************************************)
(* C14. Decoding the byte compile produces for a token with a valid        *)
(* immediate gives the instruction kind the token denotes and the same     *)
(* 4-bit operand (0 for operand-less forms), so the compiled program runs  *)
(* as the hand-built byte sequence does.                                   *)
(***************************************************************************)
RECURSIVE BinaryValue(_)
\* The number a string of binary digits denotes.
BinaryValue(text) ==
    IF text = <<>> THEN 0
    ELSE 2 * BinaryValue(SubSeq(text, 1, Len(text) - 1))
            + Digit(text[Len(text)])

\* The instruction kind a token denotes.
KindOf(t) ==
    CASE t.kind = "Mov" /\ t.reg = "A" -> "MovA"
      [] t.kind = "Mov" /\ t.reg = "B" -> "MovB"
      [] t.kind = "MovAB" -> "MovA2B"
      [] t.kind = "MovBA" -> "MovB2A"
      [] t.kind = "Add" /\ t.reg = "A" -> "AddA"
      [] t.kind = "Add" /\ t.reg = "B" -> "AddB"
      [] t.kind = "Jmp" -> "Jmp"
      [] t.kind = "Jnc" -> "Jnc"
      [] t.kind = "In" /\ t.reg = "A" -> "InA"
      [] t.kind = "In" /\ t.reg = "B" -> "InB"
      [] t.kind = "OutB" -> "OutB"
      [] t.kind = "OutIm" -> "OutIm"

\* The 4-bit operand a token with a valid immediate, or with none, denotes.
OperandOf(t) == IF HasImmediate(t) THEN BinaryValue(t.im) ELSE 0

ValidToken(t) == HasImmediate(t) => IsNibbleText(t.im)

\* C14: when every token has a valid immediate, the compiled program is the
\* hand-built byte sequence 16 * nibble + operand; and every instruction
\* dispatched from the address of such a token has the kind and the operand
\* of that token, and leaves the registers and the port output that kind
\* and operand give.
C14_RoundTrip ==
    /\ (Compiled /\ \A i \in 1..Len(tokens) : ValidToken(tokens[i])) =>
            rom = [i \in 1..Len(tokens) |->
                        16 * OpcodeNibble(tokens[i]) + OperandOf(tokens[i])]
    /\ (Dispatched /\ before.pc < Len(tokens)
            /\ ValidToken(tokens[before.pc + 1])) =>
            LET t == tokens[before.pc + 1]
                e == C5_Effect(OpcodeNibble(t), OperandOf(t), before, last.port)
            IN  /\ last.opcode = KindOf(t)
                /\ last.im = OperandOf(t)
                /\ register = [register_a |-> e.register_a,
                               register_b |-> e.register_b,
                               carry_flag |-> e.carry_flag, pc |-> e.pc]
                /\ port.output = e.output

\* The compiled MOV A,1111  ADD A,0001  MOV B,A has run its first two
\* tokens: A = 0 with the carry set.
C14_Witness ==
    /\ Len(tokens) = 3
    /\ tokens[1] = Token("Mov", "A", <<"1", "1", "1", "1">>)
    /\ tokens[2] = Token("Add", "A", <<"0", "0", "0", "1">>)
    /\ count = 2 /\ last.opcode = "AddA" /\ last.im = 1
    /\ register.register_a = 0 /\ register.carry_flag = 1

(***************************************************************************)
(* C15. A successful compile returns exactly one byte per input token, the *)
(* i-th byte being the packing of the i-th token: input order is kept,     *)
(* nothing is skipped or duplicated.                                       *)
(***************************************************************************)
C15_OneBytePerToken ==
    Compiled =>
        /\ Len(rom) = Len(tokens)
        /\ \A i \in 1..Len(tokens) :
                /\ compile_token(tokens[i]) # ParseErr
                /\ rom[i] = compile_token(tokens[i])
                /\ ValidToken(tokens[i]) =>
                        rom[i] = 16 * OpcodeNibble(tokens[i])
                                    + OperandOf(tokens[i])

\* A three-token program with three different bytes, in input order.
C15_Witness ==
    /\ Compiled /\ Len(tokens) = 3 /\ Len(rom) = 3
    /\ rom[1] # rom[2] /\ rom[2] # rom[3] /\ rom[1] # rom[3]
    /\ tokens[1].kind = "Mov" /\ rom[1] \div 16 \in {3, 7}
    /\ tokens[3].kind = "Jnc" /\ rom[3] \div 16 = 14

(***************************************************************************)
(* C16. For the operand-less kinds (MOV A,B; MOV B,A; IN A; IN B; OUT B)   *)
(* the low nibble of the instruction byte has no effect.                   *)
(***************************************************************************)
\* The high nibbles of MOV A,B  MOV B,A  IN A  IN B  OUT B.
OperandLessOps == {1, 4, 2, 6, 9}

\* C16: once a byte with an operand-less high nibble has been dispatched,
\* the registers and the port output are those that dispatching from the
\* same machine state the byte with the same high nibble and any other low
\* nibble ends in.
C16_LowNibbleIgnored ==
    (Dispatched /\ before.pc < n
        /\ (rom[before.pc + 1] \div 16) \in OperandLessOps) =>
        \A low \in Nibble :
            LET d == decode(16 * (rom[before.pc + 1] \div 16) + low)
                after == dispatch(d.opcode, d.im, before, last.port)
            IN  /\ d.ok
                /\ d.opcode = last.opcode
                /\ advance(d.opcode, after.register) = register
                /\ after.port.output = port.output

\* MOV A,B with the low nibble 1101 has been dispatched: A took B's value.
C16_Witness ==
    /\ Dispatched /\ before.pc = 0 /\ rom[1] = 29
    /\ last.opcode = "MovA2B" /\ last.im = 13
    /\ register.register_a = before.register_b
    /\ before.register_a # before.register_b

(***************************************************************************)
(* C17. For a non-empty ROM and a run started at PC = 0, PC is below the   *)
(* ROM length at every fetch: the fetch fallback value 0 is never used.    *)
(***************************************************************************)
\* C17: in a run on a non-empty ROM, whenever the loop is about to fetch, PC
\* addresses a byte of the ROM, and every instruction dispatched so far was
\* fetched from such an address and is the decoding of the byte there.
C17_FetchInsideRom ==
    n >= 1 =>
        /\ phase = "fetch" => register.pc < n
        /\ Dispatched =>
                /\ before.pc < n
                /\ last.opcode = from_u8(rom[before.pc + 1] \div 16)

\* A jump has landed two below the ROM length and the loop fetches there.
C17_Witness ==
    /\ n >= 3 /\ phase = "fetch" /\ count >= 2
    /\ last.opcode = "Jmp" /\ register.pc = n - 2

(***************************************************************************)
(* C18. JNC im dispatched with carry = 0 sets PC to im; dispatched with    *)
(* carry = 1 it leaves PC unchanged and resets carry, so unless the halt   *)
(* test stops the run the next dispatch is the same JNC, which jumps.      *)
(***************************************************************************)
\* C18: after a JNC, PC is im when the carry was 0, and PC is where it was
\* with the carry now 0 when the carry was 1; in the second case a run that
\* goes on fetches the same JNC byte, and the dispatch after it is that JNC
\* from the same address with carry 0, which sets PC to im.
C18_JncRetry ==
    /\ (Dispatched /\ last.opcode = "Jnc") =>
            /\ before.carry_flag = 0 => register.pc = last.im
            /\ before.carry_flag = 1 =>
                    /\ register.pc = before.pc
                    /\ register.carry_flag = 0
                    /\ phase = "fetch" =>
                            /\ register.pc < n
                            /\ ByteAtPc = 16 * 14 + last.im
    /\ (last2.opcode = "Jnc" /\ last2.register.carry_flag = 1) =>
            /\ last.opcode = "Jnc"
            /\ last.im = last2.im
            /\ before.pc = last2.register.pc
            /\ before.carry_flag = 0
            /\ register.pc = last.im

\* JNC 2 at address 0 was dispatched with the carry set and stayed at 0; the
\* second dispatch was the same JNC and went to address 2.
C18_Witness ==
    /\ count = 2 /\ last2.opcode = "Jnc" /\ last2.register.carry_flag = 1
    /\ last2.register.pc = 0 /\ last.opcode = "Jnc" /\ last.im = 2
    /\ register.pc = 2

(***************************************************************************)
(* C19. exec on an empty ROM halts with success, like any program shorter  *)
(* than 2 bytes: the halt test does not fail or wrap around when the       *)
(* length is 0.                                                            *)
(***************************************************************************)
\* C19: in a run on the empty ROM the halt test never panics, and the run
\* makes at most one dispatch, after which it halts.
C19_EmptyRomHalts ==
    (n = 0 /\ Compiled) =>
        /\ phase # "panicked"
        /\ count <= 1
        /\ phase = "fetch" => count = 0

(***************************************************************************)
(* C20. Each dispatch changes only its destination besides carry and PC,   *)
(* and no instruction changes the ROM contents or the port input.          *)
(***************************************************************************)
TargetsA == {"MovA", "MovA2B", "AddA", "InA"}
TargetsB == {"MovB", "MovB2A", "AddB", "InB"}
Outputs == {"OutB", "OutIm"}
Jumps == {"Jmp", "Jnc"}

\* C20: every step of the run leaves the ROM and the port input as they
\* were, and a step that dispatches an instruction leaves unchanged B and
\* the port output when the instruction targets A, A and the port output
\* when it targets B, A and B when it is OUT B / OUT im, and A, B and the
\* port output when it is JMP / JNC.
C20_Frame ==
    [][/\ rom' = rom
       /\ port'.input = port.input
       /\ (phase = "fetch" /\ phase' = "check") =>
            LET op == last'.opcode
            IN  /\ op \in TargetsA \cup TargetsB \cup Outputs \cup Jumps
                /\ op \in TargetsA =>
                        /\ register'.register_b = register.register_b
                        /\ port'.output = port.output
                /\ op \in TargetsB =>
                        /\ register'.register_a = register.register_a
                        /\ port'.output = port.output
                /\ op \in Outputs =>
                        /\ register'.register_a = register.register_a
                        /\ register'.register_b = register.register_b
                /\ op \in Jumps =>
                        /\ register'.register_a = register.register_a
                        /\ register'.register_b = register.register_b
                        /\ port'.output = port.output
       /\ phase' # "check" =>
            /\ register' = register
            /\ port' = port]_vars

\* IN A has just run: A took the port input, which differs from the A of
\* before, and B and the port output are as they were.
C20_Witness ==
    /\ phase = "check" /\ last.opcode = "InA"
    /\ register.register_a = port.input
    /\ register.register_a # before.register_a
    /\ register.register_b = before.register_b
    /\ port.output = last.port.output

(***************************************************************************)
(* C21. For a ROM of length n >= 2 run from PC = 0, the instruction at the *)
(* last address n - 1 is never dispatched: the run returns as soon as      *)
(* PC >= n - 1 after a dispatch, so the final-address instruction has no   *)
(* effect on the final state.                                              *)
(***************************************************************************)
\* C21: in a run on a ROM of 2..16 bytes every fetch is from an address
\* below n - 1 and so was every dispatch made; a halt test met with
\* PC >= n - 1 is never followed by a fetch; and the halted state has
\* PC >= n - 1 and is the effect of the last dispatch, which was of a byte
\* stored below the last address.
C21_LastAddressNeverDispatched ==
    (n >= 2 /\ n <= MaxRomSize) =>
        /\ phase = "fetch" => register.pc < n - 1
        /\ Dispatched => before.pc < n - 1
        /\ phase = "halted" =>
            LET byte == rom[before.pc + 1]
                e == C5_Effect(byte \div 16, last.im, before, last.port)
            IN  /\ Dispatched
                /\ register.pc >= n - 1
                /\ last.opcode = from_u8(byte \div 16)
                /\ register = [register_a |-> e.register_a,
                               register_b |-> e.register_b,
                               carry_flag |-> e.carry_flag, pc |-> e.pc]
                /\ port = [input |-> last.port.input, output |-> e.output]

\* A 3-byte ROM ending in OUT 9 has halted at PC = 2 after two dispatches,
\* the port output still what it was at the start.
C21_Witness ==
    /\ n = 3 /\ rom[3] = 185 /\ phase = "halted" /\ count = 2
    /\ register.pc = 2 /\ before.pc = 1
    /\ port.output = 0 /\ last.opcode \notin {"OutB", "OutIm"}
    /\ last2.opcode \notin {"OutB", "OutIm"}

=============================================================================
